---------------------------- MODULE Spec2Model ----------------------------
(***************************************************************************)
(* XyliLoader (src/main.go): an anonymous file host on top of a MongoDB    *)
(* GridFS bucket.  The model has the bucket (the files collection in       *)
(* natural order and the chunks of every file), and a pool of request      *)
(* slots, each running one HTTP handler of main(): /upload, /<shortID>,    *)
(* /raw/<shortID>, /delete/<deleteToken>.  A handler is cut into steps at  *)
(* its calls into the bucket, so that requests interleave exactly where    *)
(* the goroutines of net/http can interleave on shared state.              *)
(*                                                                         *)
(* The environment is the random source of generateID, the store's         *)
(* answer to every call (success, an error, or no answer at all) and the   *)
(* clients' requests.                                                      *)
(*                                                                         *)
(* Strings the code cuts, joins or prefix-matches (identifiers, content    *)
(* types) are sequences of one-character strings; strings it only passes   *)
(* on (messages, filenames) are TLA+ strings.                              *)
(***************************************************************************)
EXTENDS Integers, Sequences, FiniteSets, TLC

(***************************************************************************)
(* Bounds of the model.                                                    *)
(***************************************************************************)
\* Two workloads are checked.  The serial one runs one handler at a time,
\* lets SerialUploads upload streams be opened (each gets a fresh ObjectID)
\* and has a random source that hands out two values and can fail.  The
\* concurrent one runs RaceSlots handlers at once, lets RaceUploads upload
\* streams be opened and has a random source that hands out one value.
SerialSlots == 1
SerialUploads == 2
RaceSlots == 2
RaceUploads == 1
\* The input workload runs one handler at a time and opens InputUploads
\* upload streams; its random bytes and its content types are drawn from
\* samples when the server starts.
InputSlots == 1
InputUploads == 1

(***************************************************************************)
(* Program constants.                                                      *)
(***************************************************************************)
\* config.Upload.MaxSize, in bytes (config.json; the field is main.go:34).
MaxSize == 2
\* generateID reads 4 random bytes and keeps 5 characters.
IDBytes == 4
IDLen == 5

RECURSIVE Pow(_, _)
Pow(b, e) == IF e = 0 THEN 1 ELSE b * Pow(b, e - 1)

(***************************************************************************)
(* encoding/base64: RawURLEncoding.EncodeToString.                         *)
(***************************************************************************)
\* The URL-safe alphabet, index 0..63 at position 1..64.
B64 ==
  << "A","B","C","D","E","F","G","H","I","J","K","L","M",
     "N","O","P","Q","R","S","T","U","V","W","X","Y","Z",
     "a","b","c","d","e","f","g","h","i","j","k","l","m",
     "n","o","p","q","r","s","t","u","v","w","x","y","z",
     "0","1","2","3","4","5","6","7","8","9","-","_" >>

\* The characters of one group of 1, 2 or 3 bytes: the group is a 24-bit
\* value, zero-filled on the right, and a group of n bytes yields n + 1
\* characters (no padding).
EncodeGroup(g) ==
  LET b(i) == IF i <= Len(g) THEN g[i] ELSE 0
      val  == b(1) * 65536 + b(2) * 256 + b(3)
  IN  [k \in 1..(Len(g) + 1) |-> B64[((val \div Pow(64, 4 - k)) % 64) + 1]]

\* Unpadded base64 of the bytes src, three bytes at a time.
RECURSIVE EncodeToString(_)
EncodeToString(src) ==
  IF src = <<>> THEN <<>>
  ELSE IF Len(src) <= 3 THEN EncodeGroup(src)
  ELSE EncodeGroup(SubSeq(src, 1, 3)) \o EncodeToString(SubSeq(src, 4, Len(src)))

(***************************************************************************)
(* crypto/rand.Read(b) on b = make([]byte, 4).                             *)
(***************************************************************************)
ZeroBytes == [i \in 1..IDBytes |-> 0]

\* The values the random source hands out in the model.
RandDraws == { ZeroBytes, [i \in 1..IDBytes |-> 255] }

\* The whole encoding of the buffer, not cut to IDLen characters.
generateIDUncut(b) == EncodeToString(b)

\* generateID for the buffer rand.Read left behind.
generateID(b) == SubSeq(EncodeToString(b), 1, IDLen)

\* Sample bytes: 0 encodes to "A", 105 reaches the lower-case letters, and
\* 251 reaches the digits, "-" and "_".
ByteSamples == { 0, 105, 251 }

\* The buffers the random source of the input workload is drawn from.
SampleBytes == [1..IDBytes -> ByteSamples]

(***************************************************************************)
(* Content types and the viewer they select.                               *)
(***************************************************************************)
OctetStream ==
  << "a","p","p","l","i","c","a","t","i","o","n","/",
     "o","c","t","e","t","-","s","t","r","e","a","m" >>
ImagePng == << "i","m","a","g","e","/","p","n","g" >>

HasPrefix(s, p) == Len(s) >= Len(p) /\ SubSeq(s, 1, Len(p)) = p

\* A classification by the family name alone, without the "/".
getFileTypeByFamily(contentType) ==
  IF HasPrefix(contentType, << "i","m","a","g","e" >>) THEN "image"
  ELSE IF HasPrefix(contentType, << "v","i","d","e","o" >>) THEN "video"
  ELSE IF HasPrefix(contentType, << "a","u","d","i","o" >>) THEN "audio"
  ELSE "file"

getFileType(contentType) ==
  IF HasPrefix(contentType, << "i","m","a","g","e","/" >>) THEN "image"
  ELSE IF HasPrefix(contentType, << "v","i","d","e","o","/" >>) THEN "video"
  ELSE IF HasPrefix(contentType, << "a","u","d","i","o","/" >>) THEN "audio"
  ELSE "file"

(***************************************************************************)
(* formatSize: 1024-based units, "%d B" below 1024 and "%.1f %cB" above.   *)
(* An int64 byte count is its digits in base 1024, lowest first and        *)
(* without leading zeros (0 is the empty sequence): the loop of formatSize *)
(* drops one digit per round, and a float64 keeps 53 bits of them.  The    *)
(* result is [int, tenth, unit]; tenth is -1 for the "%d B" form.          *)
(***************************************************************************)
Units == << "K", "M", "G", "T", "P", "E" >>

\* An int64 has 63 value bits: 7 digits in base 1024, the 7th below 8.
Int64Digits == 7
\* A float64 has 53 bits of mantissa.
MantissaBits == 53

\* The int64 of a byte count the model holds as a number.
RECURSIVE Int64(_)
Int64(n) == IF n = 0 THEN <<>> ELSE << n % 1024 >> \o Int64(n \div 1024)

\* The number of bits of v > 0.
RECURSIVE BitLen(_)
BitLen(v) == IF v = 0 THEN 0 ELSE 1 + BitLen(v \div 2)

\* The loop of formatSize: n is bytes/unit at entry, and every round
\* divides n by 1024 and counts one unit up; div is 1024^(exp+1).
RECURSIVE SizeLoop(_, _)
SizeLoop(n, exp) == IF Len(n) >= 2 THEN SizeLoop(Tail(n), exp + 1) ELSE exp

\* Carries of a digit that reached 1024 (the top digit keeps its value:
\* the quotient by div is read off these digits).
RECURSIVE Carried(_)
Carried(ds) ==
  IF Len(ds) <= 1 THEN ds
  ELSE IF Head(ds) < 1024 THEN << Head(ds) >> \o Carried(Tail(ds))
  ELSE << Head(ds) - 1024 >> \o Carried(<< ds[2] + 1 >> \o Tail(Tail(ds)))

\* float64(bytes): the nearest value with 53 significant bits, ties to the
\* even mantissa.  At most 63 - 53 = 10 bits go, all of the lowest digit.
Float64(bytes) ==
  IF bytes = <<>> THEN bytes
  ELSE LET bits == 10 * (Len(bytes) - 1) + BitLen(bytes[Len(bytes)])
           r    == bits - MantissaBits
           lo   == bytes[1]
           rem  == lo % Pow(2, r)
           half == Pow(2, r - 1)
           odd  == IF r < 10 THEN (lo \div Pow(2, r)) % 2 = 1 ELSE bytes[2] % 2 = 1
           up   == rem > half \/ (rem = half /\ odd)
       IN  IF r <= 0 THEN bytes
           ELSE Carried([bytes EXCEPT ![1] = lo - rem + (IF up THEN Pow(2, r) ELSE 0)])

\* Ten times the digits ds plus carry: the digits of the product and the
\* carry out of the top.
RECURSIVE TimesTen(_, _)
TimesTen(ds, carry) ==
  IF ds = <<>> THEN [digits |-> <<>>, carry |-> carry]
  ELSE LET v    == 10 * Head(ds) + carry
           rest == TimesTen(Tail(ds), v \div 1024)
       IN  [digits |-> << v % 1024 >> \o rest.digits, carry |-> rest.carry]

\* Ten times x / 1024^k for the digits x (k + 1 of them): the whole tenths
\* and where the rest stands to one half (-1 below, 0 on it, 1 above).
Tenths(x) ==
  LET k    == Len(x) - 1
      p    == TimesTen(SubSeq(x, 1, k), 0)
      g    == p.digits[k]
      more == \E i \in 1..(k - 1) : p.digits[i] # 0
  IN  [ whole |-> 10 * x[k + 1] + p.carry,
        rest  |-> IF g > 512 \/ (g = 512 /\ more) THEN 1
                  ELSE IF g = 512 THEN 0 ELSE -1 ]

\* Sprintf("%.1f", x): the nearest tenth, a tie to the even one.
OneDecimal(x) ==
  LET t == Tenths(x)
  IN  IF t.rest = 1 \/ (t.rest = 0 /\ t.whole % 2 = 1) THEN t.whole + 1 ELSE t.whole

formatSize(bytes) ==
  IF Len(bytes) <= 1
  THEN [int |-> IF bytes = <<>> THEN 0 ELSE bytes[1], tenth |-> -1, unit |-> "B"]
  ELSE LET exp == SizeLoop(Tail(bytes), 0)
           t   == OneDecimal(Float64(bytes))
       IN  [int |-> t \div 10, tenth |-> t % 10, unit |-> Units[exp + 1] \o "B"]

\* The digits of the byte counts formatSize is checked on.
DigitSamples == { 0, 1, 256, 512, 1023 }

\* The sampled int64 byte counts: every length of 0..7 digits, the top
\* digit not 0 and, of 7 digits, below 8.
SampleSizes ==
  { <<>> } \cup
  UNION { { x \in [1..n -> DigitSamples \cup {7}] :
              /\ x[n] # 0
              /\ n = Int64Digits => x[n] < 8
              /\ \A i \in 1..(n - 1) : x[i] # 7 } : n \in 1..Int64Digits }

(***************************************************************************)
(* State.                                                                  *)
(***************************************************************************)
VARIABLES
  files,       \* fs.files in natural order: the documents Close has created
  chunks,      \* fs.chunks: files_id -> the bytes stored for it
  nextId,      \* the next ObjectID the driver hands to an upload stream
  reqs,        \* slot -> the request it runs (handler position and locals)
  crashed,     \* the process has died (a fatal error of the runtime)
  workload,    \* the bounds of the workload (never changes): the upload
               \* streams it opens, the bytes its random source hands out,
               \* whether that source can fail, and the file parts clients send
  revoked,     \* history: [token, short_id] of every delete answered "deleted"
  issued,      \* history: fileID -> what a 200 upload answer promised, until
               \*          a delete request resolves to that file
  sizeCall     \* a call of formatSize on its own: the argument and the result

vars == << files, chunks, nextId, reqs, crashed, workload, revoked, issued,
           sizeCall >>

\* The request slots of the workload.
Slots == DOMAIN reqs

NoDoc == [id |-> 0]
NoSize == [int |-> -1, tenth |-> -1, unit |-> ""]
NoCall == [bytes |-> <<>>, out |-> NoSize]
NoResp == [status |-> 0]

IdleReq ==
  [ kind |-> "none", pc |-> "idle", method |-> "", path |-> <<>>,
    body |-> <<>>, ctype |-> <<>>, filename |-> "",
    shortID |-> <<>>, deleteToken |-> <<>>, contentType |-> <<>>,
    fileID |-> 0, buf |-> <<>>, doc |-> NoDoc, resp |-> NoResp,
    randFailed |-> FALSE, faulted |-> FALSE, late |-> FALSE, expect |-> {} ]

\* The file parts clients send: a body, the Content-Type header of the part
\* (absent on the first) and the filename.
FileParts ==
  { [body |-> <<1>>,       ctype |-> <<>>,     filename |-> "a"],
    [body |-> <<1, 2>>,    ctype |-> ImagePng, filename |-> "b.png"],
    [body |-> <<1, 2, 3>>, ctype |-> ImagePng, filename |-> "c.png"] }

\* The server after init(): an empty bucket and no request in flight.
InitWith(nSlots, nUploads, draws, randFails, parts) ==
  /\ files = <<>>
  /\ chunks = << >>
  /\ nextId = 1
  /\ reqs = [r \in 1..nSlots |-> IdleReq]
  /\ crashed = FALSE
  /\ workload = [uploads |-> nUploads, draws |-> draws, randFails |-> randFails,
                 parts |-> parts]
  /\ revoked = {}
  /\ issued = << >>
  /\ sizeCall = NoCall

\* The content types of the input workload: one of each viewer, the blank
\* one, and types that only resemble a family ("image" without "/", an
\* upper-case family, "video/" not at the start).
SampleTypes ==
  { ImagePng,
    << "v","i","d","e","o","/","m","p","4" >>,
    << "a","u","d","i","o","/","m","p","e","g" >>,
    << "a","p","p","l","i","c","a","t","i","o","n","/","p","d","f" >>,
    <<>>,
    << "i","m","a","g","e" >>,
    << "I","m","a","g","e","/","p","n","g" >>,
    << "x","-","v","i","d","e","o","/" >> }

Init == InitWith(SerialSlots, SerialUploads, RandDraws, TRUE, FileParts)

InitRace ==
  InitWith(RaceSlots, RaceUploads, { [i \in 1..IDBytes |-> 255] }, FALSE, FileParts)

\* The input workload: either the random source hands out one sampled buffer
\* (and can fail), or clients send one file part of a sampled content type.
InitInputs ==
  \/ \E d \in SampleBytes :
       InitWith(InputSlots, InputUploads, {d}, TRUE,
                { [body |-> <<1>>, ctype |-> <<>>, filename |-> "a"] })
  \/ \E t \in SampleTypes :
       InitWith(InputSlots, InputUploads, { [i \in 1..IDBytes |-> 255] }, FALSE,
                { [body |-> <<1>>, ctype |-> t, filename |-> "a"] })

\* What b holds after rand.Read(b) whose error is dropped: the bytes drawn,
\* or, when the source failed on a build where Read returns the error, the
\* zero bytes make() put there.
ReadResults ==
  { [b |-> d, err |-> FALSE] : d \in workload.draws }
    \cup (IF workload.randFails THEN { [b |-> ZeroBytes, err |-> TRUE] } ELSE {})


(***************************************************************************)
(* The bucket.                                                             *)
(***************************************************************************)
FileIDs == { files[i].id : i \in 1..Len(files) }

\* A lookup that matches the value against either identifier.
FindAnyIdentifier(v) ==
  SelectSeq(files, LAMBDA d : d.short_id = v \/ d.delete_token = v)

\* gfsBucket.Find(bson.M{"metadata.short_id": v}): the matches, natural order.
FindShortID(v) == SelectSeq(files, LAMBDA d : d.short_id = v)

\* gfsBucket.Find(bson.M{"metadata.delete_token": v}).
FindDeleteToken(v) == SelectSeq(files, LAMBDA d : d.delete_token = v)

\* cursor.Next + cursor.Decode read the first document of the cursor only.
FirstOf(cursor) == IF Len(cursor) = 0 THEN NoDoc ELSE Head(cursor)

\* A removal that also clears the filename of the documents it leaves.
WithoutFileAndNames(id) ==
  LET rest == SelectSeq(files, LAMBDA d : d.id # id)
  IN  [i \in 1..Len(rest) |-> [rest[i] EXCEPT !.filename = ""]]

\* The files collection without the document of id.
WithoutFile(id) == SelectSeq(files, LAMBDA d : d.id # id)

\* The chunks collection without the chunks of id.
WithoutChunks(id) == [i \in (DOMAIN chunks) \ {id} |-> chunks[i]]

\* The bytes the chunks of id hold now.
ChunkData(id) == IF id \in DOMAIN chunks THEN chunks[id] ELSE <<>>

\* The document UploadStream.Close creates for the stream of request q.
FileDoc(q) ==
  [ id |-> q.fileID, filename |-> q.filename, length |-> Len(q.buf),
    short_id |-> q.shortID, delete_token |-> q.deleteToken,
    content_type |-> q.contentType ]

(***************************************************************************)
(* Responses.                                                              *)
(***************************************************************************)
\* An error answer in plain text.
textError(message, status) ==
  [ status |-> status, type |-> "text/plain", text |-> message ]

jsonError(message, status) ==
  [ status |-> status, type |-> "application/json", error |-> message ]

httpError(message, status) ==
  [ status |-> status, type |-> "text/plain", text |-> message ]

\* The handler returns having answered rs: its locals are gone, the request
\* and its answer stay on record until the slot takes the next request.
Finish(q, rs) ==
  [q EXCEPT !.pc = "done", !.resp = rs, !.doc = NoDoc, !.buf = <<>>,
            !.ctype = <<>>, !.contentType = <<>>, !.filename = "" ]

CanStart(r) == ~crashed /\ reqs[r].pc \in {"idle", "done"}

At(r, kind, pc) == ~crashed /\ reqs[r].kind = kind /\ reqs[r].pc = pc

(***************************************************************************)
(* POST /upload  (main.go:267-324)                                         *)
(***************************************************************************)
\* What a client may send: a wrong method, a body that is no multipart
\* form, a form without the field "file", or a form with a file part.
UploadRequests ==
  { [method |-> "GET", form |-> "ok", body |-> <<>>, ctype |-> <<>>, filename |-> ""],
    [method |-> "POST", form |-> "malformed", body |-> <<>>, ctype |-> <<>>, filename |-> ""],
    [method |-> "POST", form |-> "nofile", body |-> <<>>, ctype |-> <<>>, filename |-> ""] }
  \cup
  { [method |-> "POST", form |-> "ok", body |-> f.body, ctype |-> f.ctype,
     filename |-> f.filename] : f \in workload.parts }

\* fmt.Sprintf("File too large (max %d MB)", MaxSize/(1024*1024)) at this MaxSize.
TooLargeMessage == "File too large (max 0 MB)"

\* A size check that is off by one.
TooLargeOrEqual(size) == size >= MaxSize

\* header.Size > config.Upload.MaxSize
TooLarge(size) == size > MaxSize

\* Upload streams already opened, and those the requests in flight will open.
UploadsClaimed ==
  (nextId - 1) + Cardinality({ r \in Slots : reqs[r].pc \in {"u_gen", "u_open"} })

\* The request arrives and is validated (lines 268-289).
StartUpload(r) ==
  /\ CanStart(r)
  /\ \E in \in UploadRequests :
       LET q == [IdleReq EXCEPT !.kind = "upload", !.method = in.method,
                                !.body = in.body, !.ctype = in.ctype,
                                !.filename = in.filename]
       IN  \/ /\ in.method # "POST"
              /\ reqs' = [reqs EXCEPT ![r] = Finish(q, jsonError("Method not allowed", 405))]
           \/ /\ in.method = "POST" /\ in.form = "malformed"
              /\ reqs' = [reqs EXCEPT ![r] = Finish(q, jsonError("Bad request", 400))]
           \/ /\ in.method = "POST" /\ in.form = "nofile"
              /\ reqs' = [reqs EXCEPT ![r] = Finish(q, jsonError("File not found", 400))]
           \/ /\ in.method = "POST" /\ in.form = "ok"
              /\ TooLarge(Len(in.body))
              /\ reqs' = [reqs EXCEPT ![r] = Finish(q, jsonError(TooLargeMessage, 400))]
           \/ /\ in.method = "POST" /\ in.form = "ok"
              /\ ~TooLarge(Len(in.body))
              /\ UploadsClaimed < workload.uploads
              /\ reqs' = [reqs EXCEPT ![r] = [q EXCEPT !.pc = "u_gen"]]
  /\ UNCHANGED << files, chunks, nextId, crashed, workload, sizeCall, revoked, issued >>

\* if contentType == "" { contentType = "application/octet-stream" }
DefaultContentType(c) == IF c = <<>> THEN OctetStream ELSE c

\* shortID := generateID(); deleteToken := generateID() + generateID(), and
\* the content type (lines 291-296).  Each rand.Read delivers bytes or fails;
\* the failure is either dropped by generateID (Read returned the error) or
\* fatal to the process (Read of a runtime that never returns an error).
UploadGenerate(r) ==
  /\ At(r, "upload", "u_gen")
  /\ \/ /\ \E x1 \in ReadResults, x2 \in ReadResults, x3 \in ReadResults :
             reqs' = [reqs EXCEPT ![r] =
                        [@ EXCEPT !.pc = "u_open",
                                  !.shortID = generateID(x1.b),
                                  !.deleteToken = generateID(x2.b) \o generateID(x3.b),
                                  !.contentType = DefaultContentType(reqs[r].ctype),
                                  !.randFailed = x1.err \/ x2.err \/ x3.err]]
        /\ UNCHANGED crashed
     \/ /\ workload.randFails
        /\ crashed' = TRUE
        /\ UNCHANGED reqs
  /\ UNCHANGED << files, chunks, nextId, workload, sizeCall, revoked, issued >>

\* gfsBucket.OpenUploadStream (lines 304-309): a stream with a fresh file id
\* and an empty buffer, or "Upload error".
UploadOpen(r) ==
  /\ At(r, "upload", "u_open")
  /\ \/ /\ reqs' = [reqs EXCEPT ![r] = [@ EXCEPT !.pc = "u_copy", !.fileID = nextId]]
        /\ nextId' = nextId + 1
     \/ /\ reqs' = [reqs EXCEPT ![r] =
                      Finish([@ EXCEPT !.faulted = TRUE], jsonError("Upload error", 500))]
        /\ UNCHANGED nextId
  /\ UNCHANGED << files, chunks, crashed, workload, sizeCall, revoked, issued >>

\* The answer of a successful upload (lines 317-323).
UploadOk(q) ==
  [ status |-> 200, type |-> "application/json",
    link |-> q.shortID, deletion_link |-> q.deleteToken ]

\* io.Copy(uploadStream, file) and the answer (lines 311-323): every byte
\* reaches the stream and the links are written, or the copy stops after k
\* bytes and "Write error" is written.  The deferred Close is still to run.
UploadCopy(r) ==
  /\ At(r, "upload", "u_copy")
  /\ \/ reqs' = [reqs EXCEPT ![r] =
                   [@ EXCEPT !.pc = "u_close", !.buf = reqs[r].body,
                             !.resp = UploadOk(reqs[r])]]
     \/ \E k \in 0..(Len(reqs[r].body) - 1) :
          reqs' = [reqs EXCEPT ![r] =
                     [@ EXCEPT !.pc = "u_close", !.buf = SubSeq(reqs[r].body, 1, k),
                               !.faulted = TRUE,
                               !.resp = jsonError("Write error", 500)]]
  /\ UNCHANGED << files, chunks, nextId, crashed, workload, sizeCall, revoked, issued >>

\* What the answer promised, remembered once the handler returns with 200.
Promise(q) ==
  IF q.resp.status = 200
  THEN (q.fileID :> [short_id |-> q.shortID, delete_token |-> q.deleteToken,
                     body |-> q.body, content_type |-> q.contentType]) @@ issued
  ELSE issued

\* defer uploadStream.Close() (line 309), run on every return after it: the
\* buffered bytes become chunks and the files document is created; the
\* error Close returns is dropped.  When it fails no files document exists
\* (chunks it may have written belong to no document and no handler can
\* reach them: they are left out).
UploadClose(r) ==
  /\ At(r, "upload", "u_close")
  /\ LET q == reqs[r]
     IN  /\ \/ /\ files' = Append(files, FileDoc(q))
               /\ chunks' = (q.fileID :> q.buf) @@ chunks
               /\ reqs' = [reqs EXCEPT ![r] = Finish(q, q.resp)]
            \/ /\ UNCHANGED << files, chunks >>
               /\ reqs' = [reqs EXCEPT ![r] = Finish(q, q.resp)]
         /\ issued' = Promise(q)
  /\ UNCHANGED << nextId, crashed, workload, sizeCall, revoked >>

(***************************************************************************)
(* The lookups of /<shortID>, /raw/<shortID> and /delete/<deleteToken>.    *)
(***************************************************************************)
RevokedTokens == { p.token : p \in revoked }
RevokedShortIDs == { p.short_id : p \in revoked }

\* A path value no upload was ever given: it stands for all of them.
UnknownPath == << "x" >>

\* The path values clients ask for: the identifiers and tokens of the files
\* stored, of the uploads in flight and of the answers given so far, and one
\* value that is none of them.
Paths ==
  { files[i].short_id : i \in 1..Len(files) }
    \cup { files[i].delete_token : i \in 1..Len(files) }
    \cup { reqs[r].shortID : r \in { x \in Slots : reqs[x].shortID # <<>> } }
    \cup { reqs[r].deleteToken : r \in { x \in Slots : reqs[x].deleteToken # <<>> } }
    \cup { issued[f].short_id : f \in DOMAIN issued }
    \cup RevokedTokens \cup RevokedShortIDs \cup { UnknownPath }

\* Find, cursor.Next(ctx) and cursor.Decode of one handler, on the cursor
\* Find returned.  Find's error and a cursor without a document both end in
\* notFound; an error or the deadline of ctx inside Next ends Next with
\* false, so in notFound too; Decode's error ends in decodeError.  The
\* outcome is [doc, resp, faulted]: the document decoded (NoDoc when the
\* handler has answered with resp).
LookupOutcomes(cursor, notFound, decodeError) ==
  LET d == FirstOf(cursor)
  IN  IF d = NoDoc
      THEN { [doc |-> NoDoc, resp |-> notFound, faulted |-> FALSE] }
      ELSE { [doc |-> d, resp |-> NoResp, faulted |-> FALSE],
             [doc |-> NoDoc, resp |-> notFound, faulted |-> TRUE],
             [doc |-> NoDoc, resp |-> decodeError, faulted |-> TRUE] }

(***************************************************************************)
(* GET /  and  GET /<shortID>  (main.go:133-207)                           *)
(***************************************************************************)
\* The page the viewer template renders for fileDoc (lines 182-206).
ViewPage(fileID, d) ==
  [ status |-> 200, type |-> "text/html",
    viewer |-> getFileType(d.content_type),
    FileID |-> fileID, Filename |-> d.filename, FileSize |-> formatSize(Int64(d.length)) ]

\* The request arrives; "/" is the index page (lines 134-151).
StartView(r) ==
  /\ CanStart(r)
  /\ \/ \E m \in {"GET", "POST"} :
          LET q == [IdleReq EXCEPT !.kind = "view"]
          IN  reqs' = [reqs EXCEPT ![r] =
                IF m # "GET" THEN Finish(q, httpError("method not allowed", 405))
                ELSE Finish(q, [status |-> 200, type |-> "text/html", viewer |-> "index"])]
     \/ \E p \in Paths :
          reqs' = [reqs EXCEPT ![r] =
                     [IdleReq EXCEPT !.kind = "view", !.path = p,
                                     !.pc = "v_find",
                                     !.late = (p \in RevokedShortIDs)]]
  /\ UNCHANGED << files, chunks, nextId, crashed, workload, sizeCall, revoked, issued >>

\* Lines 156-206: the lookup on metadata.short_id and the page.
ViewLookup(r) ==
  /\ At(r, "view", "v_find")
  /\ \E o \in LookupOutcomes(FindShortID(reqs[r].path),
                             httpError("file not found", 404),
                             httpError("decode error", 500)) :
       reqs' = [reqs EXCEPT ![r] =
                  IF o.doc = NoDoc
                  THEN Finish([@ EXCEPT !.faulted = o.faulted], o.resp)
                  ELSE Finish([@ EXCEPT !.doc = o.doc], ViewPage(@.path, o.doc))]
  /\ UNCHANGED << files, chunks, nextId, crashed, workload, sizeCall, revoked, issued >>

(***************************************************************************)
(* GET /raw/<shortID>  (main.go:219-265)                                   *)
(***************************************************************************)
\* The uploads whose answer promised short id p and that no delete request
\* has resolved to since.
Promised(p) == { f \in DOMAIN issued : issued[f].short_id = p }

\* The request arrives (lines 220-224).
StartRaw(r) ==
  /\ CanStart(r)
  /\ \/ reqs' = [reqs EXCEPT ![r] =
                   Finish([IdleReq EXCEPT !.kind = "raw"],
                          httpError("no file id", 400))]
     \/ \E p \in Paths :
          reqs' = [reqs EXCEPT ![r] =
                     [IdleReq EXCEPT !.kind = "raw", !.path = p,
                                     !.pc = "r_find",
                                     !.late = (p \in RevokedShortIDs),
                                     !.expect = Promised(p)]]
  /\ UNCHANGED << files, chunks, nextId, crashed, workload, sizeCall, revoked, issued >>

\* Lines 229-253: the lookup on metadata.short_id.
RawLookup(r) ==
  /\ At(r, "raw", "r_find")
  /\ \E o \in LookupOutcomes(FindShortID(reqs[r].path),
                             httpError("file not found", 404),
                             httpError("decode error", 500)) :
       reqs' = [reqs EXCEPT ![r] =
                  IF o.doc = NoDoc
                  THEN Finish([@ EXCEPT !.faulted = o.faulted], o.resp)
                  ELSE [@ EXCEPT !.doc = o.doc, !.pc = "r_open"]]
  /\ UNCHANGED << files, chunks, nextId, crashed, workload, sizeCall, revoked, issued >>

\* gfsBucket.OpenDownloadStream(fileDoc.ID) (lines 255-260): the driver
\* looks the files document up by _id and opens a cursor on its chunks,
\* whose first batch holds some first part of them.
RawOpen(r) ==
  /\ At(r, "raw", "r_open")
  /\ LET id == reqs[r].doc.id
     IN  \/ /\ id \in FileIDs
            /\ \E k \in 0..Len(ChunkData(id)) :
                 reqs' = [reqs EXCEPT ![r] =
                            [@ EXCEPT !.pc = "r_copy", !.fileID = id,
                                      !.buf = SubSeq(ChunkData(id), 1, k)]]
         \/ /\ id \notin FileIDs
            /\ reqs' = [reqs EXCEPT ![r] = Finish(@, httpError("download error", 500))]
         \/ reqs' = [reqs EXCEPT ![r] =
                       Finish([@ EXCEPT !.faulted = TRUE], httpError("download error", 500))]
  /\ UNCHANGED << files, chunks, nextId, crashed, workload, sizeCall, revoked, issued >>

\* The bytes a download stream delivers: its first batch, then what the
\* chunks collection still holds beyond it.
StreamData(q) ==
  LET now == ChunkData(q.fileID)
  IN  IF Len(now) > Len(q.buf)
      THEN q.buf \o SubSeq(now, Len(q.buf) + 1, Len(now))
      ELSE q.buf

\* The answer of /raw/ once the headers are set and n bytes were copied.
RawPage(q, data) ==
  [ status |-> 200, type |-> q.doc.content_type,
    disposition |-> q.doc.filename, data |-> data ]

\* Lines 262-264: the headers and io.Copy(w, downloadStream), whose error is
\* dropped: the copy delivers what the stream has, or stops early.
RawCopy(r) ==
  /\ At(r, "raw", "r_copy")
  /\ LET q == reqs[r]
         all == StreamData(q)
     IN  \/ reqs' = [reqs EXCEPT ![r] = Finish(q, RawPage(q, all))]
         \/ \E k \in 0..(Len(all) - 1) :
              reqs' = [reqs EXCEPT ![r] =
                         Finish([q EXCEPT !.faulted = TRUE],
                                RawPage(q, SubSeq(all, 1, k)))]
  /\ UNCHANGED << files, chunks, nextId, crashed, workload, sizeCall, revoked, issued >>

(***************************************************************************)
(* GET|POST /delete/<deleteToken>  (main.go:326-371)                       *)
(***************************************************************************)
DeleteMethods == {"GET", "POST", "PUT"}

\* The request arrives and is validated (lines 327-336).
StartDelete(r) ==
  /\ CanStart(r)
  /\ \E m \in DeleteMethods, p \in Paths \cup {<<>>} :
       LET q == [IdleReq EXCEPT !.kind = "delete", !.method = m, !.path = p,
                                !.late = (p \in RevokedTokens)]
       IN  reqs' = [reqs EXCEPT ![r] =
             IF m # "POST" /\ m # "GET"
             THEN Finish(q, jsonError("Method not allowed", 405))
             ELSE IF p = <<>>
             THEN Finish(q, jsonError("No delete token", 400))
             ELSE [q EXCEPT !.pc = "d_find"]]
  /\ UNCHANGED << files, chunks, nextId, crashed, workload, sizeCall, revoked, issued >>

\* Lines 341-361: the lookup on metadata.delete_token.  The method was read
\* for the last time at line 327 and is dropped from the request's record.
DeleteLookup(r) ==
  /\ At(r, "delete", "d_find")
  /\ \E o \in LookupOutcomes(FindDeleteToken(reqs[r].path),
                             jsonError("File not found", 404),
                             jsonError("Decode error", 500)) :
       /\ reqs' = [reqs EXCEPT ![r] =
                     IF o.doc = NoDoc
                     THEN Finish([@ EXCEPT !.faulted = o.faulted, !.method = ""], o.resp)
                     ELSE [@ EXCEPT !.doc = o.doc, !.pc = "d_delete", !.method = ""]]
       /\ issued' = [f \in (DOMAIN issued) \ {o.doc.id} |-> issued[f]]
  /\ UNCHANGED << files, chunks, nextId, crashed, workload, sizeCall, revoked >>

\* The short id of the stored file id.
ShortIDOf(id) == FirstOf(SelectSeq(files, LAMBDA d : d.id = id)).short_id

\* gfsBucket.Delete(fileDoc.ID) and the answer (lines 363-370).  The driver
\* deletes the files document, reports ErrFileNotFound when there was none,
\* and deletes the chunks whatever the first delete did; either delete may
\* fail.  Every error is answered "Delete error".
DeleteDelete(r) ==
  /\ At(r, "delete", "d_delete")
  /\ LET q  == reqs[r]
         id == q.doc.id
         failed == Finish([q EXCEPT !.faulted = TRUE], jsonError("Delete error", 500))
     IN  \/ /\ id \in FileIDs
            /\ files' = WithoutFile(id)
            /\ chunks' = WithoutChunks(id)
            /\ revoked' = revoked \cup {[token |-> q.path, short_id |-> ShortIDOf(id)]}
            /\ reqs' = [reqs EXCEPT ![r] =
                 Finish(q, [status |-> 200, type |-> "application/json",
                            result |-> "deleted"])]
         \/ /\ id \notin FileIDs
            /\ chunks' = WithoutChunks(id)
            /\ reqs' = [reqs EXCEPT ![r] = Finish(q, jsonError("Delete error", 500))]
            /\ UNCHANGED << files, revoked >>
         \/ /\ \/ chunks' = WithoutChunks(id)
               \/ UNCHANGED chunks
            /\ reqs' = [reqs EXCEPT ![r] = failed]
            /\ UNCHANGED << files, revoked >>
         \/ /\ id \in FileIDs
            /\ files' = WithoutFile(id)
            /\ reqs' = [reqs EXCEPT ![r] = failed]
            /\ UNCHANGED << chunks, revoked >>
  /\ UNCHANGED << nextId, crashed, workload, sizeCall, issued >>

(***************************************************************************)
(* The store never answers a call.  Find, OpenUploadStream, the Write and  *)
(* Close of an upload stream, OpenDownloadStream, the Read of a download   *)
(* stream beyond its first batch, and Delete are given no context and      *)
(* the bucket no deadline, so the handler stays inside the call.           *)
(***************************************************************************)
\* The handler of q is about to call into the store.
InStoreCall(q) ==
  \/ q.pc \in {"u_open", "u_copy", "u_close", "v_find", "r_find", "r_open",
               "d_find", "d_delete"}
  \/ q.pc = "r_copy" /\ Len(q.buf) < q.doc.length

StoreNeverAnswers(r) ==
  /\ ~crashed
  /\ InStoreCall(reqs[r])
  /\ reqs' = [reqs EXCEPT ![r] = [IdleReq EXCEPT !.kind = reqs[r].kind, !.pc = "blocked"]]
  /\ UNCHANGED << files, chunks, nextId, crashed, workload, sizeCall, revoked, issued >>

\* One step of the handler in slot r.
Step(r) ==
  \/ UploadGenerate(r) \/ UploadOpen(r) \/ UploadCopy(r) \/ UploadClose(r)
  \/ ViewLookup(r)
  \/ RawLookup(r) \/ RawOpen(r) \/ RawCopy(r)
  \/ DeleteLookup(r) \/ DeleteDelete(r)

Next ==
  \/ \E r \in Slots : StartUpload(r)
  \/ \E r \in Slots : StartView(r)
  \/ \E r \in Slots : StartRaw(r)
  \/ \E r \in Slots : StartDelete(r)
  \/ \E r \in Slots : Step(r)
  \/ \E r \in Slots : StoreNeverAnswers(r)

\* The serial workload.
Spec == Init /\ [][Next]_vars

\* The concurrent workload.
SpecRace == InitRace /\ [][Next]_vars

\* The input workload.
SpecInputs == InitInputs /\ [][Next]_vars

(***************************************************************************)
(* formatSize on its own: the server holds an empty bucket, and the        *)
(* function is called once on a sampled byte count.                        *)
(***************************************************************************)
InitSizes ==
  /\ files = <<>>
  /\ chunks = << >>
  /\ nextId = 1
  /\ reqs = [r \in 1..InputSlots |-> IdleReq]
  /\ crashed = FALSE
  /\ workload = [uploads |-> 0, draws |-> {}, randFails |-> FALSE, parts |-> {}]
  /\ revoked = {}
  /\ issued = << >>
  /\ \E x \in SampleSizes : sizeCall = [bytes |-> x, out |-> NoSize]

FormatSizeCall ==
  /\ sizeCall.out = NoSize
  /\ sizeCall' = [sizeCall EXCEPT !.out = formatSize(sizeCall.bytes)]
  /\ UNCHANGED << files, chunks, nextId, reqs, crashed, workload, revoked, issued >>

SpecSizes == InitSizes /\ [][FormatSizeCall]_vars

(***************************************************************************)
(* Properties.                                                             *)
(***************************************************************************)
Done(r, kind) == reqs[r].kind = kind /\ reqs[r].pc = "done"

LiveShortIDs == { files[i].short_id : i \in 1..Len(files) }
LiveTokens == { files[i].delete_token : i \in 1..Len(files) }

\* The stored document of file id f.
DocOf(f) == FirstOf(SelectSeq(files, LAMBDA d : d.id = f))

\* The handler of slot r takes a step that leaves position pc (and is not
\* the store never answering).
Leaves(r, pc) ==
  reqs[r].pc = pc /\ reqs'[r].pc # pc /\ reqs'[r].pc # "blocked"

\* C1: ingest is all-or-nothing: an upload request that did not answer with
\* the two links leaves no object of its own in the store, so that no later
\* lookup on metadata.short_id or metadata.delete_token can find one.
C1_AllOrNothing ==
  \A r \in Slots :
    Done(r, "upload") /\ reqs[r].resp.status # 200 => reqs[r].fileID \notin FileIDs

\* C2: single deletion: a delete request whose token was already answered
\* "deleted" when it arrived answers 404, and so does a view or raw request
\* for the short id of a file deleted that way (requests with a method the
\* handler refuses, and requests the store failed, aside).
C2_SingleDeletion ==
  \A r \in Slots :
    /\ reqs[r].pc = "done"
    /\ reqs[r].kind \in {"delete", "view", "raw"}
    /\ reqs[r].late
    /\ reqs[r].resp.status # 405
    /\ ~reqs[r].faulted
    => reqs[r].resp.status = 404

\* C3: of two delete requests (GET or POST) with the same token, when one
\* answers "deleted" the other answers 404, unless the store failed it.
C3_ConcurrentDeletes ==
  \A r1 \in Slots, r2 \in Slots :
    /\ r1 # r2
    /\ Done(r1, "delete") /\ Done(r2, "delete")
    /\ reqs[r1].path = reqs[r2].path
    /\ reqs[r1].resp.status = 200
    /\ reqs[r2].resp.status # 405
    /\ ~reqs[r2].faulted
    => reqs[r2].resp.status = 404

\* C4: round trip: a raw request, not failed by the store, for a short id
\* that successful uploads had been answered with when it arrived, returns
\* the bytes and the content type of each such upload that no delete
\* request has resolved to.
C4_RoundTrip ==
  \A r \in Slots :
    Done(r, "raw") /\ ~reqs[r].faulted =>
      \A f \in reqs[r].expect \cap DOMAIN issued :
        /\ reqs[r].resp.status = 200
        /\ reqs[r].resp.data = issued[f].body
        /\ reqs[r].resp.type = issued[f].content_type

\* C5: token separation: the lookup of a view or raw request whose path is
\* the delete token of a live file and the short id of none answers 404,
\* and the lookup of a delete request whose path is the short id of a live
\* file and the delete token of none answers 404 and leaves the store as it
\* is (the request is over: it deletes nothing).
C5_TokenSeparation ==
  [][ \A r \in Slots :
        /\ ( /\ Leaves(r, "v_find") \/ Leaves(r, "r_find")
             /\ reqs[r].path \in LiveTokens
             /\ reqs[r].path \notin LiveShortIDs
             => reqs'[r].pc = "done" /\ reqs'[r].resp.status = 404 )
        /\ ( /\ Leaves(r, "d_find")
             /\ reqs[r].path \in LiveShortIDs
             /\ reqs[r].path \notin LiveTokens
             => /\ reqs'[r].pc = "done" /\ reqs'[r].resp.status = 404
                /\ files' = files /\ chunks' = chunks ) ]_vars

\* A view or raw request for the delete token of a live file was answered 404.
C5_Witness ==
  \E r \in Slots :
    /\ reqs[r].pc = "done" /\ reqs[r].kind \in {"view", "raw"}
    /\ reqs[r].path \in LiveTokens /\ reqs[r].path \notin LiveShortIDs
    /\ reqs[r].resp.status = 404

\* C6: independence: any two successful uploads were answered with distinct
\* short ids and distinct delete tokens, and a successful delete removes
\* the one file that carries its token and no other.
C6_Independence ==
  [][ /\ \A f \in DOMAIN issued', g \in DOMAIN issued' :
           f # g => /\ issued'[f].short_id # issued'[g].short_id
                    /\ issued'[f].delete_token # issued'[g].delete_token
      /\ \A r \in Slots :
           Leaves(r, "d_delete") /\ reqs'[r].resp.status = 200 =>
             \E f \in FileIDs :
               /\ files' = WithoutFile(f)
               /\ \A g \in FileIDs :
                    DocOf(g).delete_token = reqs[r].path <=> g = f ]_vars

\* C7: size enforcement: an upload whose file is larger than MaxSize is
\* answered 400 at once, without an upload stream ever opened for it, and
\* an upload whose file is exactly MaxSize bytes is not refused.
C7_SizeEnforcement ==
  \A r \in Slots :
    reqs[r].kind = "upload" =>
      /\ Len(reqs[r].body) > MaxSize =>
           /\ reqs[r].pc = "done"
           /\ reqs[r].resp.status = 400
           /\ reqs[r].fileID = 0
      /\ Len(reqs[r].body) = MaxSize /\ reqs[r].pc = "done" =>
           reqs[r].resp.status # 400

\* An upload larger than MaxSize was answered 400.
C7_Witness ==
  \E r \in Slots :
    /\ Done(r, "upload")
    /\ Len(reqs[r].body) > MaxSize
    /\ reqs[r].resp.status = 400

\* The request of slot r answers 200 in this step or has answered it.
Succeeds(r, kind) == reqs'[r].kind = kind /\ reqs'[r].resp.status = 200

\* C8: per-file state machine: a file appears only by an upload that
\* answers success and disappears only by a delete that answers success; a
\* file that stays keeps its document and its content; and the steps of
\* view and raw requests leave the store as it is.
C8_StateMachine ==
  [][ /\ \A f \in FileIDs' \ FileIDs :
           \E r \in Slots : Succeeds(r, "upload") /\ reqs'[r].fileID = f
      /\ \A f \in FileIDs \ FileIDs' :
           \E r \in Slots : Succeeds(r, "delete") /\ Leaves(r, "d_delete")
      /\ \A f \in FileIDs \cap FileIDs' :
           DocOf(f)' = DocOf(f) /\ ChunkData(f)' = ChunkData(f)
      /\ \A r \in Slots :
           reqs[r].kind \in {"view", "raw"} /\ reqs'[r] # reqs[r] =>
             files' = files /\ chunks' = chunks ]_vars

\* C9: the generator never fails silently: an upload during which the
\* random source failed gets no identifier, does not succeed and stores
\* nothing.
C9_NoSilentFailure ==
  \A r \in Slots :
    reqs[r].kind = "upload" /\ reqs[r].randFailed =>
      /\ reqs[r].resp.status # 200
      /\ reqs[r].fileID \notin FileIDs

\* C10: no request stays inside a call the store never answers: every store
\* call is bounded by a deadline that ends it with an error.
C10_Bounded ==
  \A r \in Slots : reqs[r].pc # "blocked"

\* The URL-safe base64 alphabet: A-Z, a-z, 0-9, "-" and "_".
URLSafe ==
  { "A","B","C","D","E","F","G","H","I","J","K","L","M","N","O","P","Q","R",
    "S","T","U","V","W","X","Y","Z","a","b","c","d","e","f","g","h","i","j",
    "k","l","m","n","o","p","q","r","s","t","u","v","w","x","y","z","0","1",
    "2","3","4","5","6","7","8","9","-","_" }

\* s is n characters of the URL-safe alphabet.
Shaped(s, n) == Len(s) = n /\ \A i \in 1..Len(s) : s[i] \in URLSafe

\* C11: identifier shape: the short id of every upload that got its
\* identifiers is 5 URL-safe characters and its delete token 10, whatever
\* the random source delivered; the token is two results of generateID one
\* after the other; and a 200 answer carries exactly these two values.
C11_IdentifierShape ==
  \A r \in Slots :
    reqs[r].kind = "upload" /\ reqs[r].shortID # <<>> =>
      /\ Shaped(reqs[r].shortID, 5)
      /\ Shaped(reqs[r].deleteToken, 10)
      /\ \E x2 \in ReadResults, x3 \in ReadResults :
           reqs[r].deleteToken = generateID(x2.b) \o generateID(x3.b)
      /\ reqs[r].resp.status = 200 =>
           /\ reqs[r].resp.link = reqs[r].shortID
           /\ reqs[r].resp.deletion_link = reqs[r].deleteToken

\* An upload was answered 200 with a short id that has a "-" and a delete
\* token made of two different halves.
C11_Witness ==
  \E r \in Slots :
    /\ Done(r, "upload") /\ reqs[r].resp.status = 200
    /\ \E i \in 1..Len(reqs[r].resp.link) : reqs[r].resp.link[i] = "-"
    /\ SubSeq(reqs[r].resp.deletion_link, 1, 5) # SubSeq(reqs[r].resp.deletion_link, 6, 10)

\* C12: content-type classification: the viewer of a page is image, video
\* or audio when the stored content type of the file starts with "image/",
\* "video/" or "audio/", and file otherwise; and the content type an upload
\* stores is the one its file part gave, or application/octet-stream (so
\* the viewer file) when the part gave none.
C12_Classification ==
  [][ \A r \in Slots :
        /\ Leaves(r, "v_find") /\ reqs'[r].resp.status = 200 =>
             LET t == FirstOf(FindShortID(reqs[r].path)).content_type
                 starts(p) == Len(t) >= Len(p) /\ \A i \in 1..Len(p) : t[i] = p[i]
             IN  reqs'[r].resp.viewer =
                   IF starts(<< "i","m","a","g","e","/" >>) THEN "image"
                   ELSE IF starts(<< "v","i","d","e","o","/" >>) THEN "video"
                   ELSE IF starts(<< "a","u","d","i","o","/" >>) THEN "audio"
                   ELSE "file"
        /\ Leaves(r, "u_close") =>
             \A f \in FileIDs' \ FileIDs :
               DocOf(f)'.content_type =
                 IF reqs[r].ctype = <<>> THEN OctetStream ELSE reqs[r].ctype ]_vars

\* The page of a file uploaded without a content type, so stored as
\* application/octet-stream, was rendered with the viewer file.
C12_Witness ==
  \E r \in Slots :
    /\ Done(r, "view") /\ reqs[r].resp.status = 200
    /\ reqs[r].path # <<>>
    /\ reqs[r].resp.viewer = "file"
    /\ FirstOf(FindShortID(reqs[r].path)).id # 0
    /\ FirstOf(FindShortID(reqs[r].path)).content_type = OctetStream

\* C13: size formatting: below 1024 the result is the byte count itself
\* with the unit B; from 1024 on, with k the largest power of 1024 not
\* above the count (the number of its base-1024 digits less one), the unit
\* is the k-th of KB, MB, GB, TB, PB, EB and the number printed is the count
\* divided by 1024^k to one decimal place, that is, a tenth nearest to the
\* exact quotient; and 0, 1023, 1536 and 1048576 bytes give "0 B",
\* "1023 B", "1.5 KB" and "1.0 MB".
C13_SizeFormatting ==
  sizeCall.out # NoSize =>
    LET n   == sizeCall.bytes
        out == sizeCall.out
        k   == Len(n) - 1
        t   == Tenths(n)
        printed == 10 * out.int + out.tenth
    IN  /\ Len(n) = 0 => out = [int |-> 0, tenth |-> -1, unit |-> "B"]
        /\ Len(n) = 1 => out = [int |-> n[1], tenth |-> -1, unit |-> "B"]
        /\ Len(n) >= 2 =>
             /\ out.unit = << "KB", "MB", "GB", "TB", "PB", "EB" >>[k]
             /\ out.tenth \in 0..9
             /\ \/ printed = t.whole /\ t.rest <= 0
                \/ printed = t.whole + 1 /\ t.rest >= 0
        /\ n = << 1023 >> => out = [int |-> 1023, tenth |-> -1, unit |-> "B"]
        /\ n = << 512, 1 >> => out = [int |-> 1, tenth |-> 5, unit |-> "KB"]
        /\ n = << 0, 0, 1 >> => out = [int |-> 1, tenth |-> 0, unit |-> "MB"]

\* C14: ordering in ingest: when the upload handler returns having answered
\* with the links, the body is fully written and the write handle released
\* with success, so the object is in the store with the whole body; a
\* release that fails is answered with an error.
C14_IngestOrdering ==
  [][ \A r \in Slots :
        Leaves(r, "u_close") /\ reqs'[r].resp.status = 200 =>
          /\ reqs[r].fileID \in FileIDs'
          /\ ChunkData(reqs[r].fileID)' = reqs[r].body ]_vars

\* C15: immutability of a live file: the document a file gets when it
\* appears carries the short id, the delete token, the filename and the
\* content type its upload handler set, and no step of any request changes
\* one of the four while the file is live.
C15_Immutability ==
  [][ files' # files =>
      /\ \A f \in FileIDs' \ FileIDs :
           \E r \in Slots :
             /\ reqs[r].kind = "upload" /\ reqs[r].fileID = f
             /\ DocOf(f)'.short_id = reqs[r].shortID
             /\ DocOf(f)'.delete_token = reqs[r].deleteToken
             /\ DocOf(f)'.filename = reqs[r].filename
             /\ DocOf(f)'.content_type = reqs[r].contentType
      /\ \A f \in FileIDs \cap FileIDs' :
           /\ DocOf(f)'.short_id = DocOf(f).short_id
           /\ DocOf(f)'.delete_token = DocOf(f).delete_token
           /\ DocOf(f)'.filename = DocOf(f).filename
           /\ DocOf(f)'.content_type = DocOf(f).content_type ]_vars

\* The first file is live after the second one was uploaded and deleted.
C15_Witness ==
  /\ FileIDs = {1}
  /\ nextId = 3
  /\ revoked # {}

\* The request of slot r arrives in this step.
Arrives(r, kind) ==
  reqs[r].pc \in {"idle", "done"} /\ reqs'[r] # reqs[r] /\ reqs'[r].kind = kind

C17_DeleteFrame ==
  [][ \A r \in Slots :
        Leaves(r, "d_delete") =>
          IF reqs'[r].resp.status = 200
          THEN /\ reqs[r].doc.id \in FileIDs
               /\ reqs[r].doc = FirstOf(FindDeleteToken(reqs[r].path))
               /\ files' = WithoutFile(reqs[r].doc.id)
               /\ chunks' = WithoutChunks(reqs[r].doc.id)
          ELSE files' = files /\ chunks' = chunks ]_vars

\* C18: a raw request that the store does not fail, running next to a
\* delete of the same file, ends in one of two ways: with 404, or with the
\* whole content of the file it looked up under the stored content type;
\* never with a part of the content, and never with another error.
C18_RawVersusDelete ==
  [][ \A r \in Slots :
        /\ reqs[r].kind = "raw" /\ reqs[r].pc \in {"r_find", "r_open", "r_copy"}
        /\ reqs'[r].pc = "done" /\ ~reqs'[r].faulted
        => \/ reqs'[r].resp.status = 404
           \/ /\ reqs'[r].resp.status = 200
              /\ Len(reqs'[r].resp.data) = reqs[r].doc.length
              /\ reqs'[r].resp.type = reqs[r].doc.content_type ]_vars

=============================================================================
